---- MODULE Spec2Model ----
(***************************************************************************)
(* Model of algo_trading_system: the indicators, the signal rule and the   *)
(* single-position backtest simulator (indicators.py, strategy.py), the    *)
(* orchestration of run_demo (main.py) and the retrying downloaders        *)
(* (data_fetch.py).                                                        *)
(*                                                                         *)
(* Floating point quantities (indicator values, shares, pnl, capital,      *)
(* rates) are modelled as exact fractions <<numerator, denominator>> in    *)
(* lowest terms; NaN is the pair <<0, 0>>, on which every ordered          *)
(* comparison is false, as in IEEE arithmetic. Prices are small integers.  *)
(***************************************************************************)
EXTENDS Integers, Sequences, FiniteSets, TLC

VARIABLES
    df,            \* the signaled bar sequence handed to backtest_signals
    i,             \* loop index of backtest_signals (0-based, next bar)
    in_position,
    entry_price,
    entry_date,
    shares,
    capital,
    trades,        \* list of trade records appended at exit
    pc,            \* "loop" while replaying, "done" after the summary
    trade_df,      \* the returned trade table (pnl_pct scaled by 100)
    summary,       \* the returned summary record
    raw,           \* the close series handed to generate_signals
    notified,      \* run_demo: outcomes of the notifications sent so far
    data,          \* run_demo: the frames returned by fetch_stock_data
    sheets_logger, \* run_demo: "none" or "logger"
    sym_idx,       \* run_demo: symbols of data.items() already processed
    summary_rows,  \* run_demo: one row per processed symbol
    all_trades,    \* run_demo: the trades of all symbols, with their symbol
    error,         \* run_demo: "none" or the place an exception escaped from
    prefer_yfinance, \* fetch_stock_data: its argument
    has_yfinance,  \* _HAS_YFINANCE
    results,       \* fetch_stock_data: the tables stored so far, by symbol
    source,        \* the downloader being called: "yfinance", "csv" or "none"
    attempt,       \* the downloader's loop variable
    slept,         \* seconds the current downloader call has slept
    outcomes,      \* what each attempt of the current call ended with
    result         \* the table the downloader call returned

\* The local state of backtest_signals and its position.
backtest_vars == <<df, i, in_position, entry_price, entry_date, shares,
                   capital, trades, pc, trade_df, summary>>

\* The state of run_demo around one backtest.
demo_vars == <<raw, notified, data, sheets_logger, sym_idx, summary_rows,
               all_trades, error>>

\* The state of fetch_stock_data and of the downloader it is calling.
fetch_vars == <<prefer_yfinance, has_yfinance, results, source, attempt,
                slept, outcomes, result>>

vars == <<backtest_vars, demo_vars, fetch_vars>>

(***************************************************************************)
(* Bounds of the model and parameters of the program.                      *)
(***************************************************************************)
MaxBars == 4

initial_capital == 100000

rsi_exit == 70

RsiBuyLevel == 30

\* The float NaN (an undefined indicator value, 0/0, the mean of nothing).
NaN == <<0, 0>>

NoDate == 0

\* Close prices of the input bars (positive, as market prices are).
Closes == {2, 3}

\* Parameters of generate_signals (the program's defaults are 14, 20 and
\* 50; the model replays short series, so it uses short windows).
rsi_period == 2

short_window == 2

long_window == 3

\* Longest close series handed to generate_signals.
MaxSeries == 6

\* Close prices of those series.
Prices == {1, 2, 6}

(***************************************************************************)
(* IEEE comparisons on indicator values: false when an operand is NaN.     *)
(***************************************************************************)
Lt(a, b) == a # NaN /\ b # NaN /\ a[1] * b[2] < b[1] * a[2]

Gt(a, b) == a # NaN /\ b # NaN /\ a[1] * b[2] > b[1] * a[2]

Ge(a, b) == a # NaN /\ b # NaN /\ a[1] * b[2] >= b[1] * a[2]

(***************************************************************************)
(* Exact fractions standing for the program's floats.                      *)
(***************************************************************************)
Abs(x) == IF x < 0 THEN -x ELSE x

RECURSIVE GCD(_, _)
GCD(a, b) == IF b = 0 THEN a ELSE GCD(b, a % b)

\* n/d in lowest terms with a positive denominator (d # 0).
Frac(n, d) ==
    LET g == GCD(Abs(n), Abs(d))
        s == IF d < 0 THEN -1 ELSE 1
    IN  <<(s * n) \div g, (s * d) \div g>>

FInt(n) == <<n, 1>>

FNaN == NaN

FAdd(a, b) == Frac(a[1] * b[2] + b[1] * a[2], a[2] * b[2])

FSub(a, b) == Frac(a[1] * b[2] - b[1] * a[2], a[2] * b[2])

FMul(a, b) == Frac(a[1] * b[1], a[2] * b[2])

FDiv(a, b) == IF b[1] = 0 THEN FNaN ELSE Frac(a[1] * b[2], a[2] * b[1])

FPos(a) == a # FNaN /\ a[1] > 0

FNonPos(a) == a # FNaN /\ a[1] <= 0

\* Indicator readings of one bar: rsi and ma_diff = sma_short - sma_long.
\* The set holds a reading for each side of every threshold the code
\* compares against (rsi 30 and 70, ma_diff 0) and the undefined readings.
Readings ==
    { [rsi |-> FInt(20), ma_diff |-> FInt(1)],    \* oversold in an uptrend
      [rsi |-> FInt(20), ma_diff |-> FInt(-1)],   \* oversold in a downtrend
      [rsi |-> FInt(70), ma_diff |-> FInt(0)],    \* exactly on both thresholds
      [rsi |-> FInt(80), ma_diff |-> FInt(1)],    \* overbought
      [rsi |-> FInt(70), ma_diff |-> FInt(-1)],   \* downtrend, not overbought
      [rsi |-> NaN,      ma_diff |-> NaN] }       \* warm-up: nothing defined

(***************************************************************************)
(* indicators.py                                                           *)
(***************************************************************************)
RECURSIVE SumRange(_, _, _)
SumRange(series, a, b) ==
    IF a > b THEN 0 ELSE series[b] + SumRange(series, a, b - 1)

\* rolling(window, min_periods=window).mean()
calculate_sma(series, window) ==
    [k \in 1..Len(series) |->
        IF k < window THEN NaN
        ELSE Frac(SumRange(series, k - window + 1, k), window)]

\* series.diff(): undefined on the first bar.
diff(series) ==
    [k \in 1..Len(series) |->
        IF k = 1 THEN NaN ELSE FInt(series[k] - series[k - 1])]

\* delta.clip(lower=0)
gain(delta) ==
    [k \in 1..Len(delta) |->
        IF delta[k] = NaN THEN NaN
        ELSE IF delta[k][1] < 0 THEN FInt(0) ELSE delta[k]]

\* -delta.clip(upper=0)
loss(delta) ==
    [k \in 1..Len(delta) |->
        IF delta[k] = NaN THEN NaN
        ELSE IF delta[k][1] > 0 THEN FInt(0) ELSE FInt(-delta[k][1])]

\* ewm(alpha=1/period, min_periods=period).mean() with the default
\* adjust=True: the weighted mean of the observations up to bar k with
\* weights (1 - alpha)^age, undefined until `period` values were observed.
RECURSIVE EwmNum(_, _, _)
EwmNum(x, k, period) ==
    IF k = 0 THEN FInt(0)
    ELSE LET old == FMul(Frac(period - 1, period), EwmNum(x, k - 1, period))
         IN  IF x[k] = NaN THEN old ELSE FAdd(old, x[k])

RECURSIVE EwmDen(_, _, _)
EwmDen(x, k, period) ==
    IF k = 0 THEN FInt(0)
    ELSE LET old == FMul(Frac(period - 1, period), EwmDen(x, k - 1, period))
         IN  IF x[k] = NaN THEN old ELSE FAdd(old, FInt(1))

ewm_mean(x, period) ==
    [k \in 1..Len(x) |->
        IF Cardinality({j \in 1..k : x[j] # NaN}) < period THEN NaN
        ELSE FDiv(EwmNum(x, k, period), EwmDen(x, k, period))]

\* rs = avg_gain / avg_loss and rsi = 100 - 100 / (1 + rs) in float
\* arithmetic: x / 0 is +inf for x > 0, which gives rsi = 100, and 0 / 0 is
\* NaN, which gives rsi = NaN.
calculate_rsi(series, period) ==
    LET avg_gain == ewm_mean(gain(diff(series)), period)
        avg_loss == ewm_mean(loss(diff(series)), period)
    IN  [k \in 1..Len(series) |->
            IF avg_gain[k] = NaN \/ avg_loss[k] = NaN THEN NaN
            ELSE IF avg_loss[k][1] = 0
                 THEN IF avg_gain[k][1] = 0 THEN NaN ELSE FInt(100)
                 ELSE FSub(FInt(100),
                           FDiv(FInt(100),
                                FAdd(FInt(1), FDiv(avg_gain[k], avg_loss[k]))))]

(***************************************************************************)
(* generate_signals: the columns it adds to the indicator columns.         *)
(***************************************************************************)
\* Variant: the trend filter is left out of the buy rule.
buy_conditions_rsi_only(bar) == Lt(bar.rsi, FInt(RsiBuyLevel))

\* The buy rule of one bar.
buy_conditions(bar) ==
    Lt(bar.rsi, FInt(RsiBuyLevel)) /\ Gt(bar.ma_diff, FInt(0))

\* Variant: the rows of the warm-up period are dropped from the result.
generate_signals_dropna(bars) ==
    SelectSeq([k \in 1..Len(bars) |->
                [Close        |-> bars[k].Close,
                 rsi          |-> bars[k].rsi,
                 ma_diff      |-> bars[k].ma_diff,
                 ma_diff_prev |-> IF k = 1 THEN NaN ELSE bars[k - 1].ma_diff,
                 signal       |-> IF buy_conditions(bars[k]) THEN 1 ELSE 0]],
              LAMBDA r : r.rsi # NaN)

\* ma_diff_prev = ma_diff.shift(1); signal = 1 where the buy rule holds.
generate_signals(bars) ==
    [k \in 1..Len(bars) |->
        [Close        |-> bars[k].Close,
         rsi          |-> bars[k].rsi,
         ma_diff      |-> bars[k].ma_diff,
         ma_diff_prev |-> IF k = 1 THEN NaN ELSE bars[k - 1].ma_diff,
         signal       |-> IF buy_conditions(bars[k]) THEN 1 ELSE 0]]

\* The rsi, sma_short, sma_long and ma_diff columns of a close series.
with_indicators(closes) ==
    LET rsi == calculate_rsi(closes, rsi_period)
        sma_short == calculate_sma(closes, short_window)
        sma_long == calculate_sma(closes, long_window)
    IN  [k \in 1..Len(closes) |->
            [Close   |-> closes[k],
             rsi     |-> rsi[k],
             ma_diff |-> IF sma_short[k] = NaN \/ sma_long[k] = NaN THEN NaN
                         ELSE FSub(sma_short[k], sma_long[k])]]

CloseSeqs == UNION {[1..n -> Prices] : n \in 0..MaxSeries}

\* One input bar: a close and the indicator readings computed for it.
Bars == {[Close |-> c, rsi |-> r.rsi, ma_diff |-> r.ma_diff] :
            c \in Closes, r \in Readings}

BarSeqs == UNION {[1..n -> Bars] : n \in 0..MaxBars}

(***************************************************************************)
(* backtest_signals                                                        *)
(***************************************************************************)
row == df[i + 1]

\* df.index[i]: dates are unique and strictly increasing along the index.
date == i + 1

price == row.Close

\* Variant: the entry test forgets the open position.
EnterCondAnyBar(inpos, r) == r.signal = 1

EnterCond(inpos, r) == ~inpos /\ r.signal = 1

\* Variant: every entry is sized from the starting capital.
SharesFromInitial(cap, p) == FDiv(FInt(initial_capital), FInt(p))

SharesAt(cap, p) == FDiv(cap, FInt(p))

\* Variant: any negative ma_diff counts as a cross-down.
cross_down_any_negative(r) == Lt(r.ma_diff, FInt(0))

cross_down(r) == Ge(r.ma_diff_prev, FInt(0)) /\ Lt(r.ma_diff, FInt(0))

\* Variant: the overbought test includes the threshold itself.
overbought_inclusive(r) == Ge(r.rsi, FInt(rsi_exit))

overbought(r) == Gt(r.rsi, FInt(rsi_exit))

\* Variant: no forced liquidation on the last bar.
ExitCondNoForcedExit(r, idx, n) == cross_down(r) \/ overbought(r)

ExitCond(r, idx, n) == cross_down(r) \/ overbought(r) \/ idx = n - 1

\* Variant: the price move is not multiplied by the position size.
PnlPerShare(exit_price, entry, sh) == FInt(exit_price - entry)

Pnl(exit_price, entry, sh) == FMul(FInt(exit_price - entry), sh)

PnlPct(pnl, entry, sh) == FDiv(pnl, FMul(FInt(entry), sh))

\* run_demo is not running: backtest_signals is called on its own.
FetchIdle ==
    /\ prefer_yfinance = TRUE
    /\ has_yfinance = TRUE
    /\ results = <<>>
    /\ source = "none"
    /\ attempt = 0
    /\ slept = 0
    /\ outcomes = <<>>
    /\ result = [columns |-> FALSE, rows |-> <<>>]

DemoIdle ==
    /\ raw = <<>>
    /\ notified = <<>>
    /\ data = <<>>
    /\ sheets_logger = "none"
    /\ sym_idx = 0
    /\ summary_rows = <<>>
    /\ all_trades = <<>>
    /\ error = "none"

Init ==
    /\ df \in {generate_signals(b) : b \in BarSeqs}
    /\ i = 0
    /\ in_position = FALSE
    /\ entry_price = 0
    /\ entry_date = NoDate
    /\ shares = FInt(0)
    /\ capital = FInt(initial_capital)
    /\ trades = <<>>
    /\ pc = "loop"
    /\ trade_df = <<>>
    /\ summary = [total_trades |-> 0, wins |-> 0, losses |-> 0,
                  win_rate |-> FInt(0), cumulative_return_pct |-> FInt(0)]
    /\ DemoIdle
    /\ FetchIdle

\* Variant: the entry iteration lacks `continue` and goes on to evaluate the
\* exit triggers on the entry bar.
EnterNoContinue ==
    /\ pc = "loop" /\ i < Len(df)
    /\ EnterCond(in_position, row)
    /\ entry_date' = date
    /\ i' = i + 1
    /\ IF ExitCond(row, i, Len(df))
       THEN /\ trades' = Append(trades,
                   [entry_date  |-> date,
                    exit_date   |-> date,
                    entry_price |-> price,
                    exit_price  |-> price,
                    shares      |-> SharesAt(capital, price),
                    pnl         |-> Pnl(price, price, SharesAt(capital, price)),
                    pnl_pct     |-> PnlPct(Pnl(price, price, SharesAt(capital, price)),
                                           price, SharesAt(capital, price))])
            /\ in_position' = FALSE
            /\ entry_price' = 0
            /\ shares' = FInt(0)
       ELSE /\ trades' = trades
            /\ in_position' = TRUE
            /\ entry_price' = price
            /\ shares' = SharesAt(capital, price)
    /\ UNCHANGED <<df, capital, pc, trade_df, summary>>
    /\ UNCHANGED <<demo_vars, fetch_vars>>

\* Variant: the committed amount is taken out of capital at entry.
EnterDeductsCapital ==
    /\ pc = "loop" /\ i < Len(df)
    /\ EnterCond(in_position, row)
    /\ entry_price' = price
    /\ entry_date' = date
    /\ shares' = SharesAt(capital, price)
    /\ in_position' = TRUE
    /\ capital' = FSub(capital, FMul(SharesAt(capital, price), FInt(price)))
    /\ i' = i + 1
    /\ UNCHANGED <<df, trades, pc, trade_df, summary>>
    /\ UNCHANGED <<demo_vars, fetch_vars>>

\* Flat -> Entered; the iteration ends with `continue`.
Enter ==
    /\ pc = "loop" /\ i < Len(df)
    /\ EnterCond(in_position, row)
    /\ entry_price' = price
    /\ entry_date' = date
    /\ shares' = SharesAt(capital, price)
    /\ in_position' = TRUE
    /\ i' = i + 1
    /\ UNCHANGED <<df, capital, trades, pc, trade_df, summary>>
    /\ UNCHANGED <<demo_vars, fetch_vars>>

\* Variant: a closing bar that carries a buy signal opens the next position
\* at once.
ExitThenReenter ==
    /\ pc = "loop" /\ i < Len(df)
    /\ ~EnterCond(in_position, row)
    /\ in_position
    /\ ExitCond(row, i, Len(df))
    /\ LET pnl == Pnl(price, entry_price, shares)
           pnl_pct == PnlPct(pnl, entry_price, shares)
       IN  /\ capital' = FAdd(capital, pnl)
           /\ trades' = Append(trades,
                  [entry_date  |-> entry_date,
                   exit_date   |-> date,
                   entry_price |-> entry_price,
                   exit_price  |-> price,
                   shares      |-> shares,
                   pnl         |-> pnl,
                   pnl_pct     |-> pnl_pct])
    /\ IF row.signal = 1
       THEN /\ in_position' = TRUE
            /\ entry_price' = price
            /\ entry_date' = date
            /\ shares' = SharesAt(capital', price)
       ELSE /\ in_position' = FALSE
            /\ entry_price' = 0
            /\ entry_date' = entry_date
            /\ shares' = FInt(0)
    /\ i' = i + 1
    /\ UNCHANGED <<df, pc, trade_df, summary>>
    /\ UNCHANGED <<demo_vars, fetch_vars>>

\* Entered -> Flat: one of the three exit triggers holds on this bar.
ExitPosition ==
    /\ pc = "loop" /\ i < Len(df)
    /\ ~EnterCond(in_position, row)
    /\ in_position
    /\ ExitCond(row, i, Len(df))
    /\ LET pnl == Pnl(price, entry_price, shares)
           pnl_pct == PnlPct(pnl, entry_price, shares)
       IN  /\ capital' = FAdd(capital, pnl)
           /\ trades' = Append(trades,
                  [entry_date  |-> entry_date,
                   exit_date   |-> date,
                   entry_price |-> entry_price,
                   exit_price  |-> price,
                   shares      |-> shares,
                   pnl         |-> pnl,
                   pnl_pct     |-> pnl_pct])
    /\ in_position' = FALSE
    /\ entry_price' = 0
    /\ shares' = FInt(0)
    /\ i' = i + 1
    /\ UNCHANGED <<df, entry_date, pc, trade_df, summary>>
    /\ UNCHANGED <<demo_vars, fetch_vars>>

\* In a position and no exit trigger: the bar changes nothing.
Hold ==
    /\ pc = "loop" /\ i < Len(df)
    /\ ~EnterCond(in_position, row)
    /\ in_position
    /\ ~ExitCond(row, i, Len(df))
    /\ i' = i + 1
    /\ UNCHANGED <<df, in_position, entry_price, entry_date, shares, capital,
                   trades, pc, trade_df, summary>>
    /\ UNCHANGED <<demo_vars, fetch_vars>>

\* Flat and no buy signal: the bar changes nothing.
Skip ==
    /\ pc = "loop" /\ i < Len(df)
    /\ ~EnterCond(in_position, row)
    /\ ~in_position
    /\ i' = i + 1
    /\ UNCHANGED <<df, in_position, entry_price, entry_date, shares, capital,
                   trades, pc, trade_df, summary>>
    /\ UNCHANGED <<demo_vars, fetch_vars>>

(***************************************************************************)
(* The trade table and the summary statistics.                             *)
(***************************************************************************)
ScalePnlPct(ts) ==
    [k \in 1..Len(ts) |->
        [ts[k] EXCEPT !.pnl_pct = FMul(ts[k].pnl_pct, FInt(100))]]

\* Variant: a break-even trade is counted as a win.
WinsInclusive(tdf) ==
    IF tdf # <<>> THEN Cardinality({k \in 1..Len(tdf) : tdf[k].pnl[1] >= 0})
    ELSE 0

Wins(tdf) ==
    IF tdf # <<>> THEN Cardinality({k \in 1..Len(tdf) : FPos(tdf[k].pnl)})
    ELSE 0

\* Variant: only strictly negative trades are counted as losses.
LossesStrict(tdf) ==
    IF tdf # <<>> THEN Cardinality({k \in 1..Len(tdf) : tdf[k].pnl[1] < 0})
    ELSE 0

Losses(tdf) ==
    IF tdf # <<>> THEN Cardinality({k \in 1..Len(tdf) : FNonPos(tdf[k].pnl)})
    ELSE 0

\* Variant: the mean of the win column is taken without the emptiness guard.
WinRateUnguarded(tdf) ==
    FDiv(FInt(Cardinality({k \in 1..Len(tdf) : FPos(tdf[k].pnl)})),
         FInt(Len(tdf)))

WinRate(tdf) ==
    IF tdf # <<>>
    THEN FDiv(FInt(Cardinality({k \in 1..Len(tdf) : FPos(tdf[k].pnl)})),
              FInt(Len(tdf)))
    ELSE FInt(0)

CumulativeReturnPct(cap) ==
    FMul(FSub(FDiv(cap, FInt(initial_capital)), FInt(1)), FInt(100))

Summarize ==
    /\ pc = "loop" /\ i = Len(df)
    /\ trade_df' = ScalePnlPct(trades)
    /\ summary' = [total_trades          |-> Len(ScalePnlPct(trades)),
                   wins                  |-> Wins(ScalePnlPct(trades)),
                   losses                |-> Losses(ScalePnlPct(trades)),
                   win_rate              |-> WinRate(ScalePnlPct(trades)),
                   cumulative_return_pct |-> CumulativeReturnPct(capital)]
    /\ pc' = "done"
    /\ UNCHANGED <<df, i, in_position, entry_price, entry_date, shares,
                   capital, trades>>
    /\ UNCHANGED <<demo_vars, fetch_vars>>

Next == Enter \/ ExitPosition \/ Hold \/ Skip \/ Summarize

Spec == Init /\ [][Next]_vars

(***************************************************************************)
(* backtest_signals on the dated scenario: one buy bar, an overbought bar  *)
(* ScenarioGap bars later. Prices play no part in it (every close is 2).   *)
(***************************************************************************)
ScenarioGap == 5

BuyReading == [rsi |-> FInt(20), ma_diff |-> FInt(1)]

OverboughtReading == [rsi |-> FInt(80), ma_diff |-> FInt(1)]

ScenarioBar(r) == [Close |-> 2, rsi |-> r.rsi, ma_diff |-> r.ma_diff]

\* The series of n bars whose only buy bar is bar k and whose bar
\* k + ScenarioGap is overbought; the other bars carry the readings f.
ScenarioSeq(n, k, f) ==
    [j \in 1..n |->
        IF j = k THEN ScenarioBar(BuyReading)
        ELSE IF j = k + ScenarioGap THEN ScenarioBar(OverboughtReading)
        ELSE ScenarioBar(f[j])]

\* The scenario alone, or with one more bar before or after it.
InitScenario ==
    /\ \E n \in {ScenarioGap + 1, ScenarioGap + 2} :
         \E k \in 1..(n - ScenarioGap) :
           \E f \in [(1..n) \ {k, k + ScenarioGap}
                       -> Readings \ {BuyReading}] :
              df = generate_signals(ScenarioSeq(n, k, f))
    /\ i = 0
    /\ in_position = FALSE
    /\ entry_price = 0
    /\ entry_date = NoDate
    /\ shares = FInt(0)
    /\ capital = FInt(initial_capital)
    /\ trades = <<>>
    /\ pc = "loop"
    /\ trade_df = <<>>
    /\ summary = [total_trades |-> 0, wins |-> 0, losses |-> 0,
                  win_rate |-> FInt(0), cumulative_return_pct |-> FInt(0)]
    /\ DemoIdle
    /\ FetchIdle

SpecScenario == InitScenario /\ [][Next]_vars

(***************************************************************************)
(* generate_signals followed by backtest_signals on a close series.        *)
(***************************************************************************)
\* generate_signals works on a copy and returns it.
SignalsOf(closes) == generate_signals(with_indicators(closes))

GenerateSignals ==
    /\ pc = "signals"
    /\ df' = SignalsOf(raw)
    /\ pc' = "backtest"
    /\ UNCHANGED <<i, in_position, entry_price, entry_date, shares, capital,
                   trades, trade_df, summary>>
    /\ UNCHANGED <<demo_vars, fetch_vars>>

\* Variant: capital is kept from the previous invocation.
StartBacktestKeepsCapital ==
    /\ pc = "backtest"
    /\ trades' = <<>>
    /\ in_position' = FALSE
    /\ entry_price' = 0
    /\ entry_date' = NoDate
    /\ shares' = FInt(0)
    /\ i' = 0
    /\ pc' = "loop"
    /\ UNCHANGED <<df, capital, trade_df, summary>>
    /\ UNCHANGED <<demo_vars, fetch_vars>>

\* The locals of one invocation of backtest_signals.
StartBacktest ==
    /\ pc = "backtest"
    /\ trades' = <<>>
    /\ in_position' = FALSE
    /\ entry_price' = 0
    /\ entry_date' = NoDate
    /\ shares' = FInt(0)
    /\ capital' = FInt(initial_capital)
    /\ i' = 0
    /\ pc' = "loop"
    /\ UNCHANGED <<df, trade_df, summary>>
    /\ UNCHANGED <<demo_vars, fetch_vars>>

InitSignals ==
    /\ raw \in CloseSeqs
    /\ pc = "signals"
    /\ df = <<>>
    /\ i = 0
    /\ in_position = FALSE
    /\ entry_price = 0
    /\ entry_date = NoDate
    /\ shares = FInt(0)
    /\ capital = FInt(initial_capital)
    /\ trades = <<>>
    /\ trade_df = <<>>
    /\ summary = [total_trades |-> 0, wins |-> 0, losses |-> 0,
                  win_rate |-> FInt(0), cumulative_return_pct |-> FInt(0)]
    /\ notified = <<>>
    /\ data = <<>>
    /\ sheets_logger = "none"
    /\ sym_idx = 0
    /\ summary_rows = <<>>
    /\ all_trades = <<>>
    /\ error = "none"
    /\ FetchIdle

NextSignals == GenerateSignals \/ StartBacktest \/ Next

SpecSignals == InitSignals /\ [][NextSignals]_vars

(***************************************************************************)
(* run_demo: notifications, fetch, the per-symbol loop and the final       *)
(* logging.                                                                *)
(***************************************************************************)
\* Number of symbols handed to run_demo; they are numbered 1..NumSymbols in
\* the order of data.items().
NumSymbols == 2

\* A fetched table: whether it has the OHLCV columns, and its rows; a row is
\* complete when neither its Close nor its Volume is missing.
Frame(closes) ==
    [columns |-> TRUE,
     rows |-> [k \in 1..Len(closes) |-> [Close |-> closes[k], complete |-> TRUE]]]

\* pd.DataFrame(): no columns and no rows, stored after a failed download.
EmptyFrame == [columns |-> FALSE, rows |-> <<>>]

\* A table in which the third row has a missing value.
FrameWithGap(closes) ==
    [columns |-> TRUE,
     rows |-> [k \in 1..Len(closes) |->
                 [Close |-> closes[k], complete |-> (k # 3)]]]

\* The tables fetch_stock_data may hand back for one symbol.
DemoFrames ==
    {EmptyFrame,
     Frame(<<2, 6, 1>>),
     Frame(<<2, 6, 1, 2>>),
     Frame(<<6, 1, 2, 2, 2, 1>>),
     FrameWithGap(<<2, 6, 6, 1, 2>>)}

\* df.dropna(subset=["Close", "Volume"]) on a table that has the columns.
dropna(frame) ==
    LET kept == SelectSeq(frame.rows, LAMBDA r : r.complete)
    IN  [k \in 1..Len(kept) |-> kept[k].Close]

TelegramOutcomes == {"sent", "failed"}

\* Variant: a failed start notification escapes from run_demo.
NotifyStartUncaught ==
    /\ pc = "notify_start"
    /\ \E o \in TelegramOutcomes :
         /\ notified' = Append(notified, o)
         /\ IF o = "failed"
            THEN pc' = "aborted" /\ error' = "telegram"
            ELSE pc' = "fetch" /\ error' = error
    /\ UNCHANGED <<df, i, in_position, entry_price, entry_date, shares,
                   capital, trades, trade_df, summary>>
    /\ UNCHANGED fetch_vars
    /\ UNCHANGED <<raw, data, sheets_logger, sym_idx, summary_rows, all_trades>>

\* The start notification; a failure is logged and run_demo goes on.
NotifyStart ==
    /\ pc = "notify_start"
    /\ \E o \in TelegramOutcomes : notified' = Append(notified, o)
    /\ pc' = "fetch"
    /\ UNCHANGED <<df, i, in_position, entry_price, entry_date, shares,
                   capital, trades, trade_df, summary>>
    /\ UNCHANGED fetch_vars
    /\ UNCHANGED <<raw, data, sheets_logger, sym_idx, summary_rows, all_trades,
                   error>>

\* data = fetch_stock_data(symbols, start_date, end_date)
Fetch ==
    /\ pc = "fetch"
    /\ data' \in [1..NumSymbols -> DemoFrames]
    /\ pc' = "sheets_setup"
    /\ UNCHANGED <<df, i, in_position, entry_price, entry_date, shares,
                   capital, trades, trade_df, summary>>
    /\ UNCHANGED fetch_vars
    /\ UNCHANGED <<raw, notified, sheets_logger, sym_idx, summary_rows,
                   all_trades, error>>

\* The optional spreadsheet logger, then the empty accumulators.
SetupSheets ==
    /\ pc = "sheets_setup"
    /\ \E o \in {"none", "logger", "missing_env"} :
         IF o = "missing_env"
         THEN /\ pc' = "aborted"
              /\ error' = "sheets_setup"
              /\ UNCHANGED <<sheets_logger, all_trades, summary_rows>>
         ELSE /\ sheets_logger' = o
              /\ all_trades' = <<>>
              /\ summary_rows' = <<>>
              /\ pc' = "symbols"
              /\ error' = error
    /\ UNCHANGED <<df, i, in_position, entry_price, entry_date, shares,
                   capital, trades, trade_df, summary>>
    /\ UNCHANGED fetch_vars
    /\ UNCHANGED <<raw, notified, data, sym_idx>>

\* The head of the loop body: dropna raises KeyError on a table without the
\* columns, and nothing in run_demo catches it.
BeginSymbol ==
    /\ pc = "symbols"
    /\ sym_idx < Len(data)
    /\ IF data[sym_idx + 1].columns
       THEN /\ raw' = dropna(data[sym_idx + 1])
            /\ pc' = "signals"
            /\ error' = error
       ELSE /\ raw' = raw
            /\ pc' = "aborted"
            /\ error' = "dropna"
    /\ UNCHANGED <<df, i, in_position, entry_price, entry_date, shares,
                   capital, trades, trade_df, summary>>
    /\ UNCHANGED fetch_vars
    /\ UNCHANGED <<notified, data, sheets_logger, sym_idx, summary_rows,
                   all_trades>>

\* The trades of one backtest, tagged with their symbol.
Tagged(table, sym) ==
    [k \in 1..Len(table) |-> [symbol |-> sym, trade |-> table[k]]]

\* summary['symbol'] = sym; summary_rows.append(summary); the trades are
\* tagged and concatenated.
CollectSymbol ==
    /\ pc = "done"
    /\ summary_rows' = Append(summary_rows,
                              [symbol |-> sym_idx + 1, summary |-> summary,
                               metrics |-> FALSE])
    /\ all_trades' = all_trades \o Tagged(trade_df, sym_idx + 1)
    /\ pc' = "ml"
    /\ UNCHANGED <<df, i, in_position, entry_price, entry_date, shares,
                   capital, trades, trade_df, summary>>
    /\ UNCHANGED fetch_vars
    /\ UNCHANGED <<raw, notified, data, sheets_logger, sym_idx, error>>

\* The ML component: its metrics go into the appended summary, and any
\* failure is caught.
TrainModels ==
    /\ pc = "ml"
    /\ \E ok \in BOOLEAN :
         summary_rows' = [summary_rows EXCEPT ![Len(summary_rows)].metrics = ok]
    /\ pc' = "log_signals"
    /\ UNCHANGED <<df, i, in_position, entry_price, entry_date, shares,
                   capital, trades, trade_df, summary>>
    /\ UNCHANGED fetch_vars
    /\ UNCHANGED <<raw, notified, data, sheets_logger, sym_idx, all_trades,
                   error>>

\* log_signals is called outside any try; write_dataframe re-raises.
LogSignals ==
    /\ pc = "log_signals"
    /\ \E ok \in BOOLEAN :
         IF sheets_logger = "logger" /\ ~ok
         THEN /\ pc' = "aborted"
              /\ error' = "log_signals"
              /\ sym_idx' = sym_idx
         ELSE /\ pc' = "symbols"
              /\ error' = error
              /\ sym_idx' = sym_idx + 1
    /\ UNCHANGED <<df, i, in_position, entry_price, entry_date, shares,
                   capital, trades, trade_df, summary>>
    /\ UNCHANGED fetch_vars
    /\ UNCHANGED <<raw, notified, data, sheets_logger, summary_rows, all_trades>>

\* After the loop: the summary table and the completion notification, whose
\* failure is logged.
NotifyDone ==
    /\ pc = "symbols"
    /\ sym_idx = Len(data)
    /\ \E o \in TelegramOutcomes : notified' = Append(notified, o)
    /\ pc' = "log_final"
    /\ UNCHANGED <<df, i, in_position, entry_price, entry_date, shares,
                   capital, trades, trade_df, summary>>
    /\ UNCHANGED fetch_vars
    /\ UNCHANGED <<raw, data, sheets_logger, sym_idx, summary_rows, all_trades,
                   error>>

\* log_trades and log_summary, outside any try.
LogFinal ==
    /\ pc = "log_final"
    /\ \E ok \in BOOLEAN :
         IF sheets_logger = "logger" /\ ~ok
         THEN pc' = "aborted" /\ error' = "log_final"
         ELSE pc' = "returned" /\ error' = error
    /\ UNCHANGED <<df, i, in_position, entry_price, entry_date, shares,
                   capital, trades, trade_df, summary>>
    /\ UNCHANGED fetch_vars
    /\ UNCHANGED <<raw, notified, data, sheets_logger, sym_idx, summary_rows,
                   all_trades>>

InitDemo ==
    /\ pc = "notify_start"
    /\ df = <<>>
    /\ i = 0
    /\ in_position = FALSE
    /\ entry_price = 0
    /\ entry_date = NoDate
    /\ shares = FInt(0)
    /\ capital = FInt(initial_capital)
    /\ trades = <<>>
    /\ trade_df = <<>>
    /\ summary = [total_trades |-> 0, wins |-> 0, losses |-> 0,
                  win_rate |-> FInt(0), cumulative_return_pct |-> FInt(0)]
    /\ DemoIdle
    /\ FetchIdle

NextDemo ==
    \/ NotifyStart
    \/ Fetch
    \/ SetupSheets
    \/ BeginSymbol
    \/ GenerateSignals
    \/ StartBacktest
    \/ Next
    \/ CollectSymbol
    \/ TrainModels
    \/ LogSignals
    \/ NotifyDone
    \/ LogFinal

SpecDemo == InitDemo /\ [][NextDemo]_vars

(***************************************************************************)
(* fetch_stock_data and the two downloaders with their retry loops.        *)
(***************************************************************************)
MAX_RETRIES == 3

RETRY_DELAY_SECONDS == 5

\* What one download attempt can end with: a table, a
\* requests.exceptions.RequestException, or any other exception.
AttemptOutcomes == {"data", "request_error", "other_error"}

\* The tables a downloader can return; an empty one still has its columns.
DownloadedFrames == (DemoFrames \ {EmptyFrame}) \cup {Frame(<<>>)}

\* _download_via_yfinance catches Exception, _download_via_csv only
\* RequestException.
Caught(src, o) ==
    o # "data" /\ (src = "yfinance" \/ o = "request_error")

\* for sym in symbols: the preferred downloader is called.
CallDownloader ==
    /\ pc = "fetch_symbol"
    /\ Len(results) < NumSymbols
    /\ source' = IF prefer_yfinance /\ has_yfinance THEN "yfinance" ELSE "csv"
    /\ attempt' = 0
    /\ slept' = 0
    /\ outcomes' = <<>>
    /\ pc' = "download"
    /\ UNCHANGED <<prefer_yfinance, has_yfinance, results, result>>
    /\ UNCHANGED <<df, i, in_position, entry_price, entry_date, shares,
                   capital, trades, trade_df, summary>>
    /\ UNCHANGED demo_vars

\* Variant: the downloader sleeps after every caught failure, the last one
\* included, before it re-raises.
AttemptSleepsAfterLast ==
    /\ pc = "download"
    /\ attempt < MAX_RETRIES
    /\ IF source = "yfinance" /\ ~has_yfinance
       THEN /\ pc' = "download_raised"
            /\ UNCHANGED <<attempt, slept, outcomes, result>>
       ELSE \E o \in AttemptOutcomes :
              /\ outcomes' = Append(outcomes, o)
              /\ IF o = "data"
                 THEN /\ \E f \in DownloadedFrames : result' = f
                      /\ pc' = "download_returned"
                      /\ UNCHANGED <<attempt, slept>>
                 ELSE IF Caught(source, o)
                 THEN /\ slept' = slept + RETRY_DELAY_SECONDS
                      /\ IF attempt < MAX_RETRIES - 1
                         THEN attempt' = attempt + 1 /\ pc' = "download"
                         ELSE attempt' = attempt /\ pc' = "download_raised"
                      /\ result' = result
                 ELSE /\ pc' = "download_raised"
                      /\ UNCHANGED <<attempt, slept, result>>
    /\ UNCHANGED <<prefer_yfinance, has_yfinance, results, source>>
    /\ UNCHANGED <<df, i, in_position, entry_price, entry_date, shares,
                   capital, trades, trade_df, summary>>
    /\ UNCHANGED demo_vars

\* One iteration of `for attempt in range(MAX_RETRIES)` in a downloader:
\* return the table, or sleep and go round again, or re-raise on the last
\* iteration; an exception the except clause does not name propagates at
\* once.  _download_via_yfinance raises ImportError before its loop when
\* yfinance is missing.  Every iteration returns or raises on the last round,
\* so the `return pd.DataFrame()` after the loop is never reached.
Attempt ==
    /\ pc = "download"
    /\ attempt < MAX_RETRIES
    /\ IF source = "yfinance" /\ ~has_yfinance
       THEN /\ pc' = "download_raised"
            /\ UNCHANGED <<attempt, slept, outcomes, result>>
       ELSE \E o \in AttemptOutcomes :
              /\ outcomes' = Append(outcomes, o)
              /\ IF o = "data"
                 THEN /\ \E f \in DownloadedFrames : result' = f
                      /\ pc' = "download_returned"
                      /\ UNCHANGED <<attempt, slept>>
                 ELSE IF Caught(source, o)
                 THEN /\ IF attempt < MAX_RETRIES - 1
                         THEN /\ slept' = slept + RETRY_DELAY_SECONDS
                              /\ attempt' = attempt + 1
                              /\ pc' = "download"
                         ELSE /\ pc' = "download_raised"
                              /\ UNCHANGED <<attempt, slept>>
                      /\ result' = result
                 ELSE /\ pc' = "download_raised"
                      /\ UNCHANGED <<attempt, slept, result>>
    /\ UNCHANGED <<prefer_yfinance, has_yfinance, results, source>>
    /\ UNCHANGED <<df, i, in_position, entry_price, entry_date, shares,
                   capital, trades, trade_df, summary>>
    /\ UNCHANGED demo_vars

\* results[sym] = df after a downloader returned.
StoreResult ==
    /\ pc = "download_returned"
    /\ results' = Append(results, result)
    /\ pc' = "fetch_symbol"
    /\ UNCHANGED <<prefer_yfinance, has_yfinance, source, attempt, slept,
                   outcomes, result>>
    /\ UNCHANGED <<df, i, in_position, entry_price, entry_date, shares,
                   capital, trades, trade_df, summary>>
    /\ UNCHANGED demo_vars

\* Variant: a failed call stores the empty table at once, without the CSV
\* fallback.
HandleFailureNoFallback ==
    /\ pc = "download_raised"
    /\ results' = Append(results, EmptyFrame)
    /\ pc' = "fetch_symbol"
    /\ UNCHANGED <<source, attempt, slept, outcomes>>
    /\ UNCHANGED <<prefer_yfinance, has_yfinance, result>>
    /\ UNCHANGED <<df, i, in_position, entry_price, entry_date, shares,
                   capital, trades, trade_df, summary>>
    /\ UNCHANGED demo_vars

\* The except clauses of fetch_stock_data: a failed yfinance call falls back
\* to the CSV endpoint; any other failure stores an empty table.
HandleFailure ==
    /\ pc = "download_raised"
    /\ IF prefer_yfinance /\ has_yfinance /\ source = "yfinance"
       THEN /\ source' = "csv"
            /\ attempt' = 0
            /\ slept' = 0
            /\ outcomes' = <<>>
            /\ pc' = "download"
            /\ results' = results
       ELSE /\ results' = Append(results, EmptyFrame)
            /\ pc' = "fetch_symbol"
            /\ UNCHANGED <<source, attempt, slept, outcomes>>
    /\ UNCHANGED <<prefer_yfinance, has_yfinance, result>>
    /\ UNCHANGED <<df, i, in_position, entry_price, entry_date, shares,
                   capital, trades, trade_df, summary>>
    /\ UNCHANGED demo_vars

\* return results
FetchReturn ==
    /\ pc = "fetch_symbol"
    /\ Len(results) = NumSymbols
    /\ pc' = "fetched"
    /\ UNCHANGED fetch_vars
    /\ UNCHANGED <<df, i, in_position, entry_price, entry_date, shares,
                   capital, trades, trade_df, summary>>
    /\ UNCHANGED demo_vars

InitFetch ==
    /\ pc = "fetch_symbol"
    /\ prefer_yfinance \in BOOLEAN
    /\ has_yfinance \in BOOLEAN
    /\ results = <<>>
    /\ source = "none"
    /\ attempt = 0
    /\ slept = 0
    /\ outcomes = <<>>
    /\ result = EmptyFrame
    /\ df = <<>>
    /\ i = 0
    /\ in_position = FALSE
    /\ entry_price = 0
    /\ entry_date = NoDate
    /\ shares = FInt(0)
    /\ capital = FInt(initial_capital)
    /\ trades = <<>>
    /\ trade_df = <<>>
    /\ summary = [total_trades |-> 0, wins |-> 0, losses |-> 0,
                  win_rate |-> FInt(0), cumulative_return_pct |-> FInt(0)]
    /\ DemoIdle

NextFetch == CallDownloader \/ Attempt \/ StoreResult \/ HandleFailure \/ FetchReturn

\* Every step of the fetch is a step of running code: none waits for ever
\* (time.sleep returns, the HTTP call returns or raises).
SpecFetch == InitFetch /\ [][NextFetch]_vars /\ WF_vars(NextFetch)

(***************************************************************************)
(* Properties of backtest_signals.                                         *)
(***************************************************************************)
\* A bar is being replayed in the current state.
AtBar == pc = "loop" /\ i < Len(df)

\* initial_capital plus the pnl of the first k trades of ts.
RECURSIVE CapitalAfter(_, _)
CapitalAfter(ts, k) ==
    IF k = 0 THEN FInt(initial_capital)
    ELSE FAdd(CapitalAfter(ts, k - 1), ts[k].pnl)

\* The three exit triggers of the bar being replayed, stated on the columns.
TrendReversal ==
    /\ df[i + 1].ma_diff_prev # NaN /\ df[i + 1].ma_diff_prev[1] >= 0
    /\ df[i + 1].ma_diff # NaN /\ df[i + 1].ma_diff[1] < 0

RsiAboveExit ==
    df[i + 1].rsi # NaN /\ df[i + 1].rsi[1] > 70 * df[i + 1].rsi[2]

LastBar == i + 1 = Len(df)

\* C1: when backtest_signals returns, the run is flat: no entry made during
\* the replay (an entry on the last bar included) is left open without a
\* recorded Trade.
C1_RunEndsFlat == pc = "done" => ~in_position

\* C2 (as claimed): a bar with signal == 1 that arrives while a position is
\* open changes none of entry_price, entry_date and shares, and shares is
\* never negative.
C2_SignalWhileOpenChangesNothing ==
    /\ [](shares[1] >= 0)
    /\ [][(AtBar /\ in_position /\ df[i + 1].signal = 1)
            => /\ entry_price' = entry_price
               /\ entry_date' = entry_date
               /\ shares' = shares]_vars

\* C2 (amended): a bar with signal == 1 that arrives while a position is
\* open never opens a second position: either it triggers no exit and
\* entry_price, entry_date, shares and the trade list are unchanged, or it
\* triggers the exit of the open position, whose Trade carries the entry
\* values unchanged and after which the simulator is flat with entry_price
\* and shares reset to 0; entry_date is unchanged either way, and shares is
\* never negative.
C2_NoPyramiding ==
    /\ [](shares[1] >= 0)
    /\ [][(AtBar /\ in_position /\ df[i + 1].signal = 1)
            => /\ entry_date' = entry_date
               /\ \/ /\ in_position'
                     /\ entry_price' = entry_price
                     /\ shares' = shares
                     /\ trades' = trades
                  \/ /\ ~in_position'
                     /\ entry_price' = 0
                     /\ shares' = FInt(0)
                     /\ Len(trades') = Len(trades) + 1
                     /\ trades'[Len(trades')].entry_price = entry_price
                     /\ trades'[Len(trades')].entry_date = entry_date
                     /\ trades'[Len(trades')].shares = shares]_vars

\* A second buy signal has been replayed while the position entered earlier
\* stays open.
C2_Witness ==
    /\ in_position /\ i >= 2
    /\ df[i].signal = 1
    /\ entry_date < i

\* C3: every recorded Trade has exit_date > entry_date.
C3_ExitAfterEntry ==
    \A k \in 1..Len(trades) : trades[k].exit_date > trades[k].entry_date

\* A position entered on the next-to-last bar has been closed on the last.
C3_Witness ==
    /\ trades # <<>>
    /\ trades[Len(trades)].entry_date = Len(df) - 1
    /\ trades[Len(trades)].exit_date = Len(df)

\* C4: with a position open, a bar closes it if and only if ma_diff crossed
\* from >= 0 to < 0, or rsi > rsi_exit, or the bar is the last one; otherwise
\* the position, capital and trade list are unchanged by the bar.
C4_ExitIffTrigger ==
    [][(AtBar /\ in_position)
        => IF TrendReversal \/ RsiAboveExit \/ LastBar
           THEN /\ ~in_position'
                /\ Len(trades') = Len(trades) + 1
                /\ trades'[Len(trades')].exit_date = i + 1
           ELSE /\ in_position'
                /\ UNCHANGED <<entry_price, entry_date, shares, capital,
                               trades>>]_vars

\* A position was held over a bar without trigger and closed by a later
\* trend reversal before the last bar.
C4_Witness ==
    /\ trades # <<>>
    /\ trades[1].exit_date > trades[1].entry_date + 1
    /\ trades[1].exit_date < Len(df)
    /\ df[trades[1].exit_date].rsi = <<70, 1>>

\* C5: the simulator goes from flat to entered exactly on a bar replayed
\* while flat with signal == 1; that step sets entry_price to the close and
\* entry_date to the date of the bar and leaves capital and trades unchanged.
C5_EntryStep ==
    [][/\ (~in_position /\ in_position')
            <=> (AtBar /\ ~in_position /\ df[i + 1].signal = 1)
       /\ (~in_position /\ in_position')
            => /\ entry_price' = df[i + 1].Close
               /\ entry_date' = i + 1
               /\ capital' = capital
               /\ trades' = trades]_vars

\* A second entry has just been made, after a first trade changed capital.
C5_Witness ==
    /\ in_position /\ entry_date = i
    /\ Len(trades) = 1
    /\ capital # FInt(initial_capital)

\* C6: the shares of every Trade equal the capital at its entry, that is
\* initial_capital plus the pnl of the trades closed before it, divided by
\* its entry_price.
C6_SharesAreCapitalAtEntry ==
    \A k \in 1..Len(trades) :
        trades[k].shares
            = FDiv(CapitalAfter(trades, k - 1), FInt(trades[k].entry_price))

\* Two trades are recorded and the first one changed capital.
C6_Witness ==
    /\ Len(trades) = 2
    /\ trades[1].pnl # FInt(0)

\* C7: capital is initial_capital plus the pnl of the recorded trades, each
\* pnl being (exit_price - entry_price) * shares; capital changes only on
\* an exit step; the cumulative_return_pct of the Summary is
\* (capital / initial_capital - 1) * 100.
C7_CapitalAccounting ==
    /\ [](/\ capital = CapitalAfter(trades, Len(trades))
          /\ \A k \in 1..Len(trades) :
                trades[k].pnl[1] * trades[k].shares[2]
                    = (trades[k].exit_price - trades[k].entry_price)
                        * trades[k].shares[1] * trades[k].pnl[2]
          /\ pc = "done" =>
                summary.cumulative_return_pct[1] * capital[2] * initial_capital
                    = (capital[1] - initial_capital * capital[2]) * 100
                        * summary.cumulative_return_pct[2])
    /\ [][capital' # capital
            => /\ in_position /\ ~in_position'
               /\ Len(trades') = Len(trades) + 1]_vars

\* The run has returned with a winning and a losing trade recorded.
C7_Witness ==
    /\ pc = "done"
    /\ Len(trades) = 2
    /\ trades[1].pnl[1] > 0
    /\ trades[2].pnl[1] < 0

\* C8: a position entered earlier and still open on the final bar, with no
\* trend reversal and rsi not above rsi_exit on that bar, is closed by a
\* Trade dated at the final bar and priced at its close, with pnl 0 when
\* that close equals entry_price.
C8_ForcedExitOnFinalBar ==
    [][(AtBar /\ in_position /\ LastBar /\ ~TrendReversal /\ ~RsiAboveExit)
        => /\ Len(trades') = Len(trades) + 1
           /\ trades'[Len(trades')].exit_date = Len(df)
           /\ trades'[Len(trades')].exit_price = df[Len(df)].Close
           /\ (df[Len(df)].Close = entry_price
                => trades'[Len(trades')].pnl = FInt(0))]_vars

\* A position was force-closed on the final bar at its entry price.
C8_Witness ==
    /\ pc = "done" /\ trades # <<>>
    /\ trades[Len(trades)].exit_date = Len(df)
    /\ trades[Len(trades)].entry_date < Len(df) - 1
    /\ df[Len(df)].rsi = <<70, 1>> /\ df[Len(df)].ma_diff = <<0, 1>>
    /\ trades[Len(trades)].exit_price = trades[Len(trades)].entry_price
    /\ trades[Len(trades)].pnl = FInt(0)

\* C9: in the returned Summary wins + losses == total_trades, the number of
\* recorded Trades.
C9_WinsPlusLosses ==
    pc = "done" =>
        /\ summary.total_trades = Len(trades)
        /\ summary.wins + summary.losses = summary.total_trades

\* The run returned a winning and a break-even trade.
C9_Witness ==
    /\ pc = "done"
    /\ Len(trades) = 2
    /\ \E k \in 1..2 : trades[k].pnl[1] > 0
    /\ \E k \in 1..2 : trades[k].pnl = FInt(0)

\* C10: for an input that is empty or has no bar with signal == 1 the
\* function returns an empty Trade list and the Summary total_trades = 0,
\* wins = 0, losses = 0, win_rate = 0.0, cumulative_return_pct = 0.0.
C10_NoSignalZeroSummary ==
    (pc = "done" /\ \A k \in 1..Len(df) : df[k].signal # 1)
        => /\ trades = <<>>
           /\ trade_df = <<>>
           /\ summary = [total_trades |-> 0, wins |-> 0, losses |-> 0,
                         win_rate |-> <<0, 1>>,
                         cumulative_return_pct |-> <<0, 1>>]

\* The run returned for a non-empty input without any buy signal.
C10_Witness ==
    /\ pc = "done"
    /\ Len(df) = MaxBars
    /\ \A k \in 1..Len(df) : df[k].signal = 0

(***************************************************************************)
(* Properties of generate_signals and the indicators.                      *)
(***************************************************************************)
\* generate_signals has returned its result for the series raw.
Signaled == pc \in {"backtest", "loop", "done"}

\* C11: signal == 1 exactly on the bars whose rsi is defined and < 30 and
\* whose ma_diff is defined and > 0, whatever the other bars are; on a bar
\* where rsi, sma_short or sma_long is undefined the signal is 0.
C11_SignalRule ==
    Signaled =>
        LET rsi == calculate_rsi(raw, rsi_period)
            sma_short == calculate_sma(raw, short_window)
            sma_long == calculate_sma(raw, long_window)
        IN  \A k \in 1..Len(df) :
               /\ df[k].signal \in {0, 1}
               /\ df[k].signal = 1
                   <=> /\ df[k].rsi # NaN /\ df[k].rsi[1] < 30 * df[k].rsi[2]
                       /\ df[k].ma_diff # NaN /\ df[k].ma_diff[1] > 0
               /\ (rsi[k] = NaN \/ sma_short[k] = NaN \/ sma_long[k] = NaN)
                   => df[k].signal = 0

\* A series with a buy signal, a warm-up bar and an oversold bar outside an
\* uptrend.
C11_Witness ==
    /\ Signaled
    /\ \E k \in 1..Len(df) : df[k].signal = 1
    /\ \E k \in 1..Len(df) : df[k].rsi = NaN /\ df[k].signal = 0
    /\ \E k \in 1..Len(df) :
          /\ df[k].rsi # NaN /\ df[k].rsi[1] < 30 * df[k].rsi[2]
          /\ df[k].ma_diff # NaN /\ df[k].ma_diff[1] <= 0
          /\ df[k].signal = 0

\* C12: generate_signals returns one signaled bar per input bar, in the
\* input's order (the k-th bar carries the k-th close and index entry), and
\* leaves the caller's series unmodified.
C12_OneSignaledBarPerBar ==
    /\ [](Signaled => /\ Len(df) = Len(raw)
                      /\ \A k \in 1..Len(raw) : df[k].Close = raw[k])
    /\ [][raw' = raw]_vars

\* A series of full length with warm-up bars has been signaled.
C12_Witness ==
    /\ Signaled
    /\ Len(raw) = MaxSeries
    /\ df[1].rsi = NaN
    /\ df[Len(df)].rsi # NaN

\* C18: on every bar where the smoothed averages are defined and
\* avg_loss == 0 (avg_gain == 0 included) the rsi is the number 100.
C18_RsiIs100WhenNoLoss ==
    Signaled =>
        \A k \in 1..Len(raw) :
            LET avg_loss == ewm_mean(loss(diff(raw)), rsi_period)[k]
            IN  (avg_loss # NaN /\ avg_loss[1] = 0) => df[k].rsi = <<100, 1>>

(***************************************************************************)
(* Properties of the trade list.                                           *)
(***************************************************************************)
\* Bar k is the only bar of df with rsi < 30 and ma_diff > 0.
OnlyBuyBar(k) ==
    \A j \in 1..Len(df) :
        (j = k) <=> /\ df[j].rsi # NaN /\ df[j].rsi[1] < 30 * df[j].rsi[2]
                    /\ df[j].ma_diff # NaN /\ df[j].ma_diff[1] > 0

RsiAbove70(j) == df[j].rsi # NaN /\ df[j].rsi[1] > 70 * df[j].rsi[2]

CrossDownAt(j) ==
    /\ df[j].ma_diff_prev # NaN /\ df[j].ma_diff_prev[1] >= 0
    /\ df[j].ma_diff # NaN /\ df[j].ma_diff[1] < 0

\* C14 (as claimed): if bar k is the only bar with rsi < 30 and ma_diff > 0
\* and rsi is above 70 at bar k + 5, exactly one Trade is recorded, entered
\* at bar k and closed at bar k + 5.
C14_OneTradeFromKToK5 ==
    pc = "done" =>
        \A k \in 1..Len(df) :
            (/\ OnlyBuyBar(k)
             /\ k + ScenarioGap <= Len(df)
             /\ RsiAbove70(k + ScenarioGap))
                => /\ Len(trades) = 1
                   /\ trades[1].entry_date = k
                   /\ trades[1].exit_date = k + ScenarioGap

\* C14 (amended): if bar k is the only bar with rsi < 30 and ma_diff > 0,
\* no bar strictly between k and k + 5 has rsi > 70 or a ma_diff cross-down,
\* and rsi is above 70 at bar k + 5, exactly one Trade is recorded, entered
\* at bar k and closed at bar k + 5.
C14_OneTradeFromKToK5NoEarlierExit ==
    pc = "done" =>
        \A k \in 1..Len(df) :
            (/\ OnlyBuyBar(k)
             /\ k + ScenarioGap <= Len(df)
             /\ RsiAbove70(k + ScenarioGap)
             /\ \A j \in (k + 1)..(k + ScenarioGap - 1) :
                    ~RsiAbove70(j) /\ ~CrossDownAt(j))
                => /\ Len(trades) = 1
                   /\ trades[1].entry_date = k
                   /\ trades[1].exit_date = k + ScenarioGap

\* The scenario has been replayed: entry at bar 1, the position held over
\* bars with a negative ma_diff that is no cross-down, exit at the
\* overbought bar, one more bar after it.
C14_Witness ==
    /\ pc = "done"
    /\ Len(df) = ScenarioGap + 2
    /\ Len(trades) = 1
    /\ trades[1].entry_date = 1
    /\ trades[1].exit_date = 1 + ScenarioGap
    /\ df[3].ma_diff = <<-1, 1>> /\ df[4].ma_diff = <<-1, 1>>

\* C19: the trades are in chronological order and do not overlap: each
\* entry_date is later than the previous exit_date, and the bar that closes
\* a position never opens a new one, even when it carries signal == 1.
C19_TradesDoNotOverlap ==
    /\ \A k \in 2..Len(trades) :
          trades[k].entry_date > trades[k - 1].exit_date
    /\ (pc = "loop" /\ trades # <<>> /\ trades[Len(trades)].exit_date = i)
          => ~in_position

\* Two trades are recorded and the bar that closed the second one carries
\* a buy signal.
C19_Witness ==
    /\ Len(trades) = 2
    /\ df[trades[2].exit_date].signal = 1
    /\ trades[2].exit_date = i

(***************************************************************************)
(* Properties of run_demo.                                                 *)
(***************************************************************************)
ZeroSummary ==
    [total_trades |-> 0, wins |-> 0, losses |-> 0,
     win_rate |-> FInt(0), cumulative_return_pct |-> FInt(0)]

\* The trades run_demo collected for one symbol.
TradesOf(sym) ==
    LET mine == SelectSeq(all_trades, LAMBDA t : t.symbol = sym)
    IN  [k \in 1..Len(mine) |-> mine[k].trade]

\* C13: every invocation of backtest_signals starts flat with capital equal
\* to initial_capital and no trades, whatever was simulated before it, and
\* two symbols with identical tables get identical trades and summaries.
C13_NoStateAcrossInvocations ==
    /\ (pc = "loop" /\ i = 0) =>
          /\ ~in_position
          /\ capital = FInt(initial_capital)
          /\ shares = FInt(0)
          /\ trades = <<>>
    /\ \A s, t \in 1..Len(summary_rows) :
          data[s] = data[t] =>
             /\ summary_rows[s].summary = summary_rows[t].summary
             /\ TradesOf(s) = TradesOf(t)

\* Two symbols with the same table have both been processed, one after the
\* other, and each made a trade.
C13_Witness ==
    /\ Len(summary_rows) = NumSymbols
    /\ data[1] = data[2]
    /\ summary_rows[1].summary.total_trades > 0
    /\ summary_rows[2].summary.total_trades > 0
    /\ TradesOf(2) # <<>>

\* C15: a fault raised while one symbol is processed (its table is the
\* result of a failed fetch, or logging its signals fails) does not stop
\* run_demo before the remaining symbols are processed: it can only be seen
\* escaping on the last symbol.
C15_SymbolFaultsAreCaught ==
    error \in {"dropna", "log_signals"} => sym_idx + 1 = Len(data)

\* C16: a symbol whose table is the empty result of a failed download is
\* processed without raising and gets a zero summary row and no trades.
C16_EmptyResultGivesZeroRow ==
    \A s \in 1..Len(data) :
       data[s] = EmptyFrame =>
          /\ ~(error = "dropna" /\ sym_idx = s - 1)
          /\ s <= Len(summary_rows) =>
                /\ summary_rows[s].summary = ZeroSummary
                /\ TradesOf(s) = <<>>

\* C17: a notification step, delivered or not, goes on to the same next
\* step of run_demo and changes nothing of the data, the trades or the
\* summary rows; it never aborts.
C17_NotificationNeverAborts ==
    [][notified' # notified =>
         /\ pc' = (IF pc = "notify_start" THEN "fetch" ELSE "log_final")
         /\ UNCHANGED <<error, data, sym_idx, summary_rows, all_trades, raw,
                        sheets_logger, df, capital, trades, trade_df, summary>>]_vars

\* Both notifications failed and run_demo returned with every symbol
\* processed and trades collected.
C17_Witness ==
    /\ pc = "returned"
    /\ notified = <<"failed", "failed">>
    /\ Len(summary_rows) = NumSymbols
    /\ all_trades # <<>>

(***************************************************************************)
(* Properties of the downloaders.                                          *)
(***************************************************************************)
\* A downloader call is running or has just ended.
InCall == pc \in {"download", "download_returned", "download_raised"}

CallEnded == pc \in {"download_returned", "download_raised"}

\* C20: a downloader call makes at most MAX_RETRIES attempts; it returns at
\* the first attempt that does not fail; it has slept RETRY_DELAY_SECONDS
\* once for every failed attempt that was followed by another one and never
\* after the last; once attempt number MAX_RETRIES has failed the failure
\* is raised to the caller; and every call ends.
C20_BoundedRetries ==
    /\ [](InCall => Len(outcomes) <= MAX_RETRIES)
    /\ [](pc = "download_returned" =>
             /\ outcomes # <<>>
             /\ outcomes[Len(outcomes)] = "data"
             /\ \A j \in 1..(Len(outcomes) - 1) : outcomes[j] # "data")
    /\ [](pc = "download" =>
             /\ \A j \in 1..Len(outcomes) : outcomes[j] # "data"
             /\ Len(outcomes) < MAX_RETRIES
             /\ slept = RETRY_DELAY_SECONDS * Len(outcomes))
    /\ [](CallEnded /\ outcomes # <<>> =>
             slept = RETRY_DELAY_SECONDS * (Len(outcomes) - 1))
    /\ [](CallEnded /\ outcomes = <<>> => slept = 0)
    /\ [](InCall /\ Len(outcomes) = MAX_RETRIES
             /\ outcomes[MAX_RETRIES] # "data" => pc = "download_raised")
    /\ (pc = "download") ~> CallEnded

\* A call whose every allowed attempt failed: it slept twice and raised.
C20_Witness ==
    /\ pc = "download_raised"
    /\ Len(outcomes) = MAX_RETRIES
    /\ \A j \in 1..MAX_RETRIES : outcomes[j] = "request_error"
    /\ slept = RETRY_DELAY_SECONDS * (MAX_RETRIES - 1)

(***************************************************************************)
(* Properties of fetch_stock_data.                                         *)
(***************************************************************************)
\* C21: fetch_stock_data never raises and returns one entry per requested
\* symbol: a raised yfinance call is followed by the CSV call for the same
\* symbol with nothing stored yet; a raised call with no source left stores
\* the empty table for that symbol and the loop goes on to the next one;
\* and every run ends by returning the entries of all symbols.
C21_FetchNeverRaises ==
    /\ [](pc \in {"fetch_symbol", "download", "download_returned",
                   "download_raised", "fetched"})
    /\ [](pc = "fetched" => Len(results) = NumSymbols)
    /\ [][(pc = "download_raised" /\ source = "yfinance") =>
             (pc' = "download" /\ source' = "csv" /\ outcomes' = <<>>
              /\ results' = results)]_vars
    /\ [][(pc = "download_raised" /\ source = "csv") =>
             (pc' = "fetch_symbol"
              /\ results' = Append(results, EmptyFrame))]_vars
    /\ [][Len(results') \in {Len(results), Len(results) + 1}
          /\ \A s \in 1..Len(results) : results'[s] = results[s]]_vars
    /\ <>(pc = "fetched")

\* Both sources failed for the first symbol, whose entry is the empty table,
\* and the next symbol was still fetched, through the CSV fallback.
C21_Witness ==
    /\ pc = "fetched"
    /\ prefer_yfinance /\ has_yfinance
    /\ results[1] = EmptyFrame
    /\ source = "csv"
    /\ results[NumSymbols] = result
    /\ result.rows # <<>>

(***************************************************************************)
(* Properties of the Summary.                                              *)
(***************************************************************************)
\* C22: in the returned Summary wins is the number of Trades with pnl > 0
\* and losses the number with pnl <= 0, so a break-even Trade is a loss and
\* never a win, and win_rate is wins / total_trades when there are Trades.
C22_WinIffPositivePnl ==
    pc = "done" =>
        LET won == {k \in 1..Len(trade_df) : trade_df[k].pnl[1] > 0}
            lost == {k \in 1..Len(trade_df) : trade_df[k].pnl[1] <= 0}
            even == {k \in 1..Len(trade_df) : trade_df[k].pnl[1] = 0}
        IN  /\ \A k \in 1..Len(trade_df) : trade_df[k].pnl[2] > 0
            /\ summary.wins = Cardinality(won)
            /\ summary.losses = Cardinality(lost)
            /\ even \subseteq lost /\ even \cap won = {}
            /\ summary.losses >= Cardinality(even)
            /\ summary.total_trades > 0 =>
                  /\ summary.win_rate[2] > 0
                  /\ summary.win_rate[1] * summary.total_trades
                        = summary.wins * summary.win_rate[2]

\* The run returned one winning trade and then a trade closed by a forced
\* exit on the last bar at an unchanged price: one win, one loss, win_rate
\* one half.
C22_Witness ==
    /\ pc = "done"
    /\ Len(trade_df) = 2
    /\ trade_df[1].pnl[1] > 0
    /\ trade_df[2].exit_date = Len(df)
    /\ trade_df[2].exit_price = trade_df[2].entry_price
    /\ trade_df[2].pnl = FInt(0)
    /\ ~Gt(df[Len(df)].rsi, FInt(rsi_exit))
    /\ ~(Ge(df[Len(df)].ma_diff_prev, FInt(0)) /\ Lt(df[Len(df)].ma_diff, FInt(0)))
    /\ summary.wins = 1 /\ summary.losses = 1
    /\ summary.win_rate = <<1, 2>>

====
